---- MODULE Spec2Model ----
(***************************************************************************)
(* LinkedIn post scheduler (src/index.js, latest revision, lines 220-507). *)
(* The entry point (--now or the cron job), runWithRetries with its retry  *)
(* loop, the attempt orchestrator postToLinkedIn, content selection        *)
(* against the posted-history file, the browser lifecycle, the login and   *)
(* publish steps on the page, and the notifications.  Every awaited call   *)
(* that can reject is a nondeterministic choice between its outcomes.      *)
(*                                                                         *)
(* Spec        one --now run, no notification settings, every catalog.     *)
(* SpecMail    the same run with the notification settings set or not.     *)
(* SpecRuns    with or without --now; the cron job fires repeatedly.       *)
(* SpecOverlap the cron job firing while its previous run is under way.    *)
(* SpecLive    one --now run under weak fairness of its steps.             *)
(* SpecSession the run with the Session Establisher of the specification   *)
(*             (section 4.2) in place of loginToLinkedIn.                  *)
(***************************************************************************)
EXTENDS Integers, Sequences, FiniteSets, TLC

(* ----------------------------- bounds ---------------------------------- *)

\* Number of distinct message texts that catalogs and ledgers draw from.
NumMsgs == 2
\* Number of times the cron job fires while the script is watched.
MaxRuns == 2

(* ------------------------ program constants ---------------------------- *)

MAX_RETRIES == 3
INITIAL_DELAY_MINUTES == 1
BACKOFF_BASE == 5
MS_PER_MINUTE == 60000

(* ------------------------------ values --------------------------------- *)

MsgNames == <<"A", "B", "C", "D">>
Msgs == {MsgNames[i] : i \in 1..NumMsgs}
AllMsgs == [i \in 1..NumMsgs |-> MsgNames[i]]

\* Topic names a content.json may define.
TopicNames == {"tech", "career"}
\* A property every plain object inherits from Object.prototype: the lookup
\* content.topics[name] finds it (a function, truthy) though it is no topic.
InheritedKeys == {"constructor"}
\* POST_TOPIC unset (or empty: falsy) is "".
TopicSettings == {""} \cup TopicNames \cup InheritedKeys

NULL == "<null>"
NoError == "<none>"

Range(s) == {s[i] : i \in 1..Len(s)}

\* The messages of S in catalog order.
AscSeq(S) == LET In(m) == m \in S IN SelectSeq(AllMsgs, In)
MsgLists == {AscSeq(S) : S \in SUBSET Msgs}

\* content.json: topics -> list of messages.
Catalogs == UNION {[T -> MsgLists] : T \in SUBSET TopicNames}

\* posted_history.json: missing, unparseable, or a JSON array of messages.
ArrayFile(h) == [kind |-> "array", data |-> h]
AbsentFile == [kind |-> "absent", data |-> <<>>]
InvalidFile == [kind |-> "invalid", data |-> <<>>]
InitialFiles == {AbsentFile, InvalidFile} \cup {ArrayFile(h) : h \in MsgLists}

Subjects == {"LinkedIn Bot - Content Error", "LinkedIn Bot - Login Failed",
             "LinkedIn Bot - Post Creation Failed", "LinkedIn Bot - Post Success",
             "LinkedIn Bot - All Retries Failed"}

\* No second run of runWithRetries is under way.
NoRun == [pc |-> "none"]

\* The page before any call on it (and when the attempt has no page).
BlankPage == [typeCalls |-> 0, challenge |-> "none", timedOut |-> FALSE,
              toast |-> "none", authenticated |-> FALSE]

VARIABLES
    content,        \* the catalog loaded from content.json
    POST_TOPIC,     \* process.env.POST_TOPIC
    notifyConfigured, \* NOTIFICATION_EMAIL, NOTIFICATION_PASSWORD, RECIPIENT_EMAIL all set
    shouldPostNow,  \* process.argv.includes('--now')
    scheduled,      \* cron.schedule(cronExpression, runWithRetries) was called
    runs,           \* runWithRetries() calls since the script started
    historyFile,    \* posted_history.json on disk
    pc,             \* position of the run
    attempt,        \* loop variable of runWithRetries
    postedHistory,  \* what getPostedHistory returned to selectPostContent
    selection,      \* outcome of selectPostContent in this attempt
    postContent,    \* the message of this attempt
    browser,        \* "none" | "open" | "closed" in this attempt
    closeCalls,     \* browser.close() calls in this attempt
    confirmed,      \* message whose success toast was seen in this attempt
    error,          \* error propagating out of the attempt
    notifications,  \* sendNotification calls since this attempt started, in order
    sent,           \* sendNotification calls of this run, counted by subject
    lastMail,       \* what the last sendNotification call of this attempt did
    contentFailures,\* attempts of this run whose selectPostContent returned nothing
    delays,         \* delay(ms) calls of this run, in order
    historyAtStart, \* posted_history.json when the attempt started
    screenshots,    \* page.screenshot() calls in this attempt
    page,           \* the browser page of this attempt, as the calls left it
    parked          \* the other run of runWithRetries under way in the process,
                    \* suspended at an await; NoRun when there is none

vars == <<content, POST_TOPIC, notifyConfigured, shouldPostNow, scheduled, runs,
          lastMail, historyFile, pc, attempt, postedHistory, selection,
          postContent, browser, closeCalls, confirmed, error, notifications,
          sent, contentFailures, delays, historyAtStart, screenshots, page, parked>>

(* ------------------------- getPostedHistory ---------------------------- *)

\* The array in the file; [] when the file is missing, or reading or parsing
\* it throws (readOK = FALSE: readFileSync failed on an existing file).
getPostedHistory(file, readOK) ==
    IF file.kind = "array" /\ readOK THEN file.data ELSE <<>>

(* ------------------------- selectPostContent --------------------------- *)

Return(v) == [type |-> "return", value |-> v]
Throw(e) == [type |-> "throw", value |-> e]

\* postedHistory.includes(message)
Includes(history, m) == m \in Range(history)

\* Mutant: the filter against the ledger is dropped.
Unposted_NoFilter(topicContent, history) == topicContent

\* topicContent.filter(post => !postedHistory.includes(post.message))
Unposted(topicContent, history) ==
    LET NotPosted(m) == ~Includes(history, m) IN SelectSeq(topicContent, NotPosted)

\* Math.floor(Math.random() * n), as a 1-based index; rnd is the random draw.
RandomIndex(rnd, n) == ((rnd - 1) % n) + 1

\* !content.topics[name] is false for a topic of the catalog (an array, even an
\* empty one, is truthy) and for a property inherited from Object.prototype.
TopicFound(name) == name \in DOMAIN content \/ name \in InheritedKeys

\* for (const topic of topicsToTry) { ... } and the final return null.
RECURSIVE LoopTopics(_, _, _)
LoopTopics(topicsToTry, history, rnd) ==
    IF topicsToTry = <<>> THEN Return(NULL)
    ELSE LET topic == Head(topicsToTry) IN
         IF topic \notin DOMAIN content
         THEN Throw("TypeError")  \* topicContent.filter is not a function
         ELSE LET unpostedMessages == Unposted(content[topic], history) IN
              IF Len(unpostedMessages) > 0
              THEN Return(unpostedMessages[RandomIndex(rnd, Len(unpostedMessages))])
              ELSE LoopTopics(Tail(topicsToTry), history, rnd)

\* Every order Object.keys(content.topics).sort(() => 0.5 - Math.random()) can give.
Shuffles(S) == {p \in [1..Cardinality(S) -> S] : Range(p) = S}

\* !postContent, and topicsToTry.length === 0
Falsy(v) == v = NULL \/ v = ""

\* selectPostContent given the ledger it read, the shuffled keys and the draw.
selectPostContent(history, shuffled, rnd) ==
    IF POST_TOPIC # "" /\ ~TopicFound(POST_TOPIC)
    THEN Return(NULL)
    ELSE LET topicsToTry == IF POST_TOPIC # "" THEN <<POST_TOPIC>> ELSE shuffled IN
         IF Len(topicsToTry) = 0
         THEN Return(NULL)
         ELSE LoopTopics(topicsToTry, history, rnd)

(* --------------------------- sendNotification -------------------------- *)

Notification(subject, text, n, shot) ==
    [subject |-> subject, text |-> text, attempts |-> n, screenshot |-> shot]

\* What a call does: it returns at once when a setting is missing, else
\* transporter.sendMail fulfils or rejects.
MailOutcomes(configured) == IF configured THEN {"sent", "failed"} ELSE {"skipped"}

\* Mutant: a rejected sendMail is not caught.
NotifierThrows_OnSendFailure(outcome) == outcome = "failed"

\* Whether the call throws into its caller: the early return, and the
\* try/catch around sendMail that only logs.
NotifierThrows(outcome) == FALSE

\* The error leaving a block that calls sendNotification and then throws e.
ThrownAfter(e, outcome) == IF NotifierThrows(outcome) THEN "MailError" ELSE e

\* sendNotification returns normally whether the mail was skipped, sent or
\* failed to send; the call is logged and counted.
sendNotification(subject, text, n, shot) ==
    /\ notifications' = Append(notifications, Notification(subject, text, n, shot))
    /\ sent' = [sent EXCEPT ![subject] = @ + 1]
    /\ lastMail' \in MailOutcomes(notifyConfigured)

mail == <<notifications, sent, lastMail>>

(* ----------------------------- updateHistory --------------------------- *)

\* history.push(message) on what getPostedHistory returned.
Pushed(file, readOK, message) == Append(getPostedHistory(file, readOK), message)

\* writeFileSync: "ok" rewrites the file; a failure is caught and leaves the
\* file as it was or, when it fails after truncating, unparseable.
WriteOutcomes == {"ok", "failed", "truncated"}
updateHistory(file, readOK, message, written) ==
    CASE written = "ok" -> ArrayFile(Pushed(file, readOK, message))
      [] written = "failed" -> file
      [] written = "truncated" -> InvalidFile

(* ------------------------------ backoff -------------------------------- *)

RECURSIVE Pow(_, _)
Pow(b, e) == IF e = 0 THEN 1 ELSE b * Pow(b, e - 1)

\* Mutant: the exponent is the attempt number, not attempt - 1.
delayMinutes_OffByOne(n) == INITIAL_DELAY_MINUTES * Pow(BACKOFF_BASE, n)

\* INITIAL_DELAY_MINUTES * Math.pow(5, attempt - 1)
delayMinutes(n) == INITIAL_DELAY_MINUTES * Pow(BACKOFF_BASE, n - 1)
delayMs(n) == delayMinutes(n) * MS_PER_MINUTE

(* ------------------------------- Init ---------------------------------- *)

\* The script has loaded and runWithRetries was not called yet.
NotStarted ==
    /\ scheduled = FALSE
    /\ runs = 0
    /\ lastMail = "none"
    /\ pc = "idle"
    /\ attempt = 0
    /\ postedHistory = <<>>
    /\ selection = Return(NULL)
    /\ postContent = NULL
    /\ browser = "none"
    /\ closeCalls = 0
    /\ confirmed = NULL
    /\ error = NoError
    /\ notifications = <<>>
    /\ sent = [s \in Subjects |-> 0]
    /\ contentFailures = 0
    /\ delays = <<>>
    /\ historyAtStart = historyFile
    /\ screenshots = 0
    /\ page = BlankPage
    /\ parked = NoRun

\* node index.js --now, without notification settings.
Init ==
    /\ content \in Catalogs
    /\ POST_TOPIC \in TopicSettings
    /\ notifyConfigured = FALSE
    /\ shouldPostNow = TRUE
    /\ historyFile \in InitialFiles
    /\ NotStarted

\* Catalogs of one topic.
SmallCatalogs == {[t \in {"tech"} |-> l] : l \in MsgLists}

\* node index.js --now, with or without the notification settings.
InitMail ==
    /\ content \in SmallCatalogs
    /\ POST_TOPIC = ""
    /\ notifyConfigured \in BOOLEAN
    /\ shouldPostNow = TRUE
    /\ historyFile \in InitialFiles
    /\ NotStarted

\* node index.js --now, a catalog of one topic, any ledger file.
InitSession ==
    /\ content \in SmallCatalogs
    /\ POST_TOPIC = ""
    /\ notifyConfigured = FALSE
    /\ shouldPostNow = TRUE
    /\ historyFile \in InitialFiles
    /\ NotStarted

\* node index.js with or without --now, on a ledger that is missing or empty.
InitRuns ==
    /\ content \in SmallCatalogs
    /\ POST_TOPIC = ""
    /\ notifyConfigured = FALSE
    /\ shouldPostNow \in BOOLEAN
    /\ historyFile \in {AbsentFile, ArrayFile(<<>>)}
    /\ NotStarted

\* node index.js --now, a catalog of one topic, POST_TOPIC unset, naming the
\* topic or naming an inherited property, any ledger file.
InitLive ==
    /\ content \in SmallCatalogs
    /\ POST_TOPIC \in {"", "tech"} \cup InheritedKeys
    /\ notifyConfigured = FALSE
    /\ shouldPostNow = TRUE
    /\ historyFile \in InitialFiles
    /\ NotStarted

\* node index.js (the cron job), one topic holding every message, a ledger
\* that is missing or empty.
InitOverlap ==
    /\ content = [t \in {"tech"} |-> AllMsgs]
    /\ POST_TOPIC = ""
    /\ notifyConfigured = FALSE
    /\ shouldPostNow = FALSE
    /\ historyFile \in {AbsentFile, ArrayFile(<<>>)}
    /\ NotStarted

config == <<content, POST_TOPIC, notifyConfigured, shouldPostNow>>
script == <<scheduled, runs, parked>>
attemptVars == <<postedHistory, selection, postContent, browser, closeCalls,
                 confirmed, error, historyAtStart, screenshots, page>>

\* A fresh call of postToLinkedIn: let browser; nothing selected yet.
EnterAttempt(n) ==
    /\ attempt' = n
    /\ pc' = "select"
    /\ postedHistory' = <<>>
    /\ selection' = Return(NULL)
    /\ postContent' = NULL
    /\ browser' = "none"
    /\ closeCalls' = 0
    /\ confirmed' = NULL
    /\ error' = NoError
    /\ historyAtStart' = historyFile
    /\ screenshots' = 0
    /\ page' = BlankPage
    /\ notifications' = <<>>
    /\ lastMail' = "none"

(* --------------------------- runWithRetries ---------------------------- *)

\* if (shouldPostNow) runWithRetries(): attempt = 1.
StartRun ==
    /\ pc = "idle"
    /\ shouldPostNow
    /\ runs' = runs + 1
    /\ EnterAttempt(1)
    /\ UNCHANGED <<config, scheduled, parked, historyFile, sent, contentFailures, delays>>

\* Mutant: the cron job is registered with --now too.
Schedule_Always ==
    /\ pc = "idle"
    /\ scheduled' = TRUE
    /\ pc' = "scheduled"
    /\ UNCHANGED <<config, runs, parked, historyFile, attempt, attemptVars, mail,
                   contentFailures, delays>>

\* else { cron.schedule(cronExpression, runWithRetries) }
Schedule ==
    /\ pc = "idle"
    /\ ~shouldPostNow
    /\ scheduled' = TRUE
    /\ pc' = "scheduled"
    /\ UNCHANGED <<config, runs, parked, historyFile, attempt, attemptVars, mail,
                   contentFailures, delays>>

\* The cron job fires when no run is under way: runWithRetries() starts afresh.
CronTick ==
    /\ scheduled
    /\ pc \in {"scheduled", "done"}
    /\ runs < MaxRuns
    /\ runs' = runs + 1
    /\ EnterAttempt(1)
    /\ sent' = [s \in Subjects |-> 0]
    /\ contentFailures' = 0
    /\ delays' = <<>>
    /\ UNCHANGED <<config, scheduled, parked, historyFile>>

\* What the call of runWithRetries whose code is running keeps while it is
\* suspended.  Inside postToLinkedIn: the loop variable, the run's tallies and
\* everything of the attempt.  Between attempts and after the return the call of
\* postToLinkedIn is over and its locals are gone: the loop variable and the
\* run's tallies remain.
RunState ==
    LET inAttempt == pc \notin {"delay", "done"}
        Kept(v, blank) == IF inAttempt THEN v ELSE blank
    IN [pc |-> pc, attempt |-> attempt, sent |-> sent,
        contentFailures |-> contentFailures, delays |-> delays,
        postedHistory |-> Kept(postedHistory, <<>>),
        selection |-> Kept(selection, Return(NULL)),
        postContent |-> Kept(postContent, NULL),
        browser |-> Kept(browser, "none"),
        closeCalls |-> Kept(closeCalls, 0),
        confirmed |-> Kept(confirmed, NULL),
        error |-> Kept(error, NoError),
        notifications |-> Kept(notifications, <<>>),
        lastMail |-> Kept(lastMail, "none"),
        historyAtStart |-> Kept(historyAtStart, AbsentFile),
        screenshots |-> Kept(screenshots, 0),
        page |-> Kept(page, BlankPage)]

\* A run is suspended at an await that precedes its next access to the ledger
\* file: the delay before the next attempt (selectPostContent follows the
\* timer without an await between) or the 'Post Success' mail (updateHistory
\* follows it).  Steps of two runs commute unless they access the file, so
\* these are the awaits at which the order of the two runs matters.
AwaitsBeforeLedger == pc \in {"delay", "updateHistory"}

\* The cron job fires while the run it started earlier waits for its next
\* attempt: a second call of runWithRetries starts on the same event loop, with
\* its own locals, and the first stays suspended at its await.
CronTickOverlapping ==
    /\ scheduled
    /\ pc = "delay"
    /\ parked = NoRun
    /\ runs < MaxRuns
    /\ runs' = runs + 1
    /\ parked' = RunState
    /\ EnterAttempt(1)
    /\ sent' = [s \in Subjects |-> 0]
    /\ contentFailures' = 0
    /\ delays' = <<>>
    /\ UNCHANGED <<config, scheduled, historyFile>>

\* The run whose code is running is suspended at an await, or has returned,
\* and the event loop resumes the other run where it was suspended.
Resume ==
    /\ parked # NoRun
    /\ AwaitsBeforeLedger \/ pc = "done"
    /\ parked.pc # "done"
    /\ parked' = RunState
    /\ pc' = parked.pc
    /\ attempt' = parked.attempt
    /\ postedHistory' = parked.postedHistory
    /\ selection' = parked.selection
    /\ postContent' = parked.postContent
    /\ browser' = parked.browser
    /\ closeCalls' = parked.closeCalls
    /\ confirmed' = parked.confirmed
    /\ error' = parked.error
    /\ notifications' = parked.notifications
    /\ sent' = parked.sent
    /\ lastMail' = parked.lastMail
    /\ contentFailures' = parked.contentFailures
    /\ delays' = parked.delays
    /\ historyAtStart' = parked.historyAtStart
    /\ screenshots' = parked.screenshots
    /\ page' = parked.page
    /\ UNCHANGED <<config, scheduled, runs, historyFile>>

(* ---------------------------- postToLinkedIn --------------------------- *)

\* const postContent = selectPostContent(); if (!postContent) ...
SelectContent ==
    /\ pc = "select"
    /\ \E readOK \in BOOLEAN, shuffled \in Shuffles(DOMAIN content), rnd \in 1..NumMsgs :
         LET history == getPostedHistory(historyFile, readOK)
             result == selectPostContent(history, shuffled, rnd)
         IN /\ postedHistory' = history
            /\ selection' = result
            /\ IF result.type = "throw"
               THEN /\ error' = result.value
                    /\ postContent' = NULL
                    /\ pc' = "finally"
               ELSE /\ postContent' = result.value
                    /\ error' = NoError
                    /\ pc' = IF Falsy(result.value) THEN "contentError" ELSE "launch"
            /\ contentFailures' = IF result.type = "return" /\ Falsy(result.value)
                                  THEN contentFailures + 1 ELSE contentFailures
    /\ UNCHANGED <<config, script, page, historyFile, attempt, browser, closeCalls, confirmed,
                   mail, delays, historyAtStart, screenshots>>

\* await sendNotification('... Content Error', ...); throw new Error(...)
ContentError ==
    /\ pc = "contentError"
    /\ sendNotification("LinkedIn Bot - Content Error", "", 0, FALSE)
    /\ error' = ThrownAfter("Failed to select content. Halting execution.", lastMail')
    /\ pc' = "finally"
    /\ UNCHANGED <<config, script, page, historyFile, attempt, postedHistory, selection, postContent,
                   browser, closeCalls, confirmed, contentFailures, delays, historyAtStart,
                   screenshots>>

\* browser = await puppeteer.launch(...)
Launch ==
    /\ pc = "launch"
    /\ \E ok \in BOOLEAN :
         IF ok THEN /\ browser' = "open"
                    /\ pc' = "newPage"
                    /\ error' = error
               ELSE /\ browser' = browser
                    /\ pc' = "finally"
                    /\ error' = "LaunchError"
    /\ UNCHANGED <<config, script, page, historyFile, attempt, postedHistory, selection, postContent,
                   closeCalls, confirmed, mail, contentFailures, delays, historyAtStart,
                   screenshots>>

\* const page = await browser.newPage(); await page.setViewport(...)
NewPage ==
    /\ pc = "newPage"
    /\ \E ok \in BOOLEAN :
         IF ok THEN /\ pc' = "login"
                    /\ error' = error
               ELSE /\ pc' = "finally"
                    /\ error' = "PageError"
    /\ page' = BlankPage
    /\ UNCHANGED <<config, script, historyFile, attempt, postedHistory, selection, postContent,
                   browser, closeCalls, confirmed, mail, contentFailures, delays,
                   historyAtStart, screenshots>>

(* --------------------------- loginToLinkedIn --------------------------- *)

\* The awaited calls of the try block, in order.
LoginSteps == <<"goto", "typeUsername", "typePassword", "waitSubmit", "clickSubmit",
                "waitFeed">>
\* The try block ran to its end.
LoggedIn == "loggedIn"

\* What the site shows: no security challenge, one on the page /login loads
\* (before any credential is typed), or one after the credentials are submitted.
Challenges == {"none", "beforeCredentials", "afterSubmit"}

\* The step at which the try block can stop, given what the site shows.  The
\* feed selector never becomes visible while a challenge is up, so the try block
\* does not run to its end; a challenge after the submit is met at the wait for
\* the feed; one on the loaded page leaves every later call free to fail.
CanStopAt(challenge, step) ==
    CASE challenge = "none" -> TRUE
      [] challenge = "beforeCredentials" -> step \notin {"goto", LoggedIn}
      [] challenge = "afterSubmit" -> step = "waitFeed"

\* page.type calls on the credential fields that were made when the try block
\* stopped at the step.
TypeCalls(step) ==
    CASE step = "goto" -> 0
      [] step = "typeUsername" -> 1
      [] OTHER -> 2

\* Whether the error thrown at the step is a timeout: waitForSelector rejects
\* with a TimeoutError when its timeout passes with the selector not visible.
TimedOutAt(step) == step \in {"waitSubmit", "waitFeed"}

\* Mutant: the wait for the feed has no timeout; with a challenge up after the
\* submit the selector never shows and the wait never settles.
Settles_NoFeedTimeout(challenge, step) == ~(challenge = "afterSubmit" /\ step = "waitFeed")

\* Whether the awaited call the try block stops at settles: goto, type and click
\* fulfil or reject, and both waitForSelector calls carry a timeout (10000 and
\* 45000 ms) after which they reject.
Settles(challenge, step) == TRUE

\* Mutant: a failed screenshot replaces the login error.
Rethrown_ScreenshotError(loginError, shot) ==
    IF shot THEN loginError ELSE "ScreenshotError"

\* catch (loginError) { try { screenshot ... } catch (screenshotError) { ... }
\* throw loginError; }
Rethrown(loginError, shot) == loginError

\* await loginToLinkedIn(page): goto, type, type, wait, click, wait for the feed;
\* on any failure one screenshot attempt, the notification, and the rethrow.
\* (pc "pending": an awaited call that never settles; none does.)
Login ==
    /\ pc = "login"
    /\ \E challenge \in Challenges, step \in Range(LoginSteps) \cup {LoggedIn} :
         /\ CanStopAt(challenge, step)
         /\ page' = [page EXCEPT !.typeCalls = TypeCalls(step), !.challenge = challenge,
                                  !.timedOut = TimedOutAt(step)]
         /\ IF ~Settles(challenge, step)
            THEN /\ pc' = "pending"
                 /\ UNCHANGED <<error, mail, screenshots>>
            ELSE IF step = LoggedIn
            THEN /\ pc' = "post"
                 /\ UNCHANGED <<error, mail, screenshots>>
            ELSE \E shot \in BOOLEAN :
                   /\ screenshots' = screenshots + 1
                   /\ sendNotification("LinkedIn Bot - Login Failed", "LoginError", 0, shot)
                   /\ error' = ThrownAfter(Rethrown("LoginError", shot), lastMail')
                   /\ pc' = "finally"
    /\ UNCHANGED <<config, script, historyFile, attempt, postedHistory, selection, postContent,
                   browser, closeCalls, confirmed, contentFailures, delays, historyAtStart>>

(* ------------- Session Establisher of the specification ---------------- *)
(* The revision of loginToLinkedIn that reuses a persisted session is not    *)
(* among the sources (config.js declares its selectors and timeouts); these  *)
(* definitions follow section 4.2 of the specification.                      *)

\* What the landing surface shows once navigated to: the authenticated view,
\* a security challenge, the login form; or the navigation failed.
Landings == {"authenticated", "challenge", "loginForm", "navigationFailed"}

\* Step 4 in order, then the outcomes of the race of step 5.
CredentialSteps == <<"waitUsername", "typeUsername", "waitPassword", "typePassword",
                     "waitSubmit", "clickSubmit">>
Races == {"success", "challenge", "timeout"}

\* Mutant: credentials are entered whatever the landing surface shows.
EntersCredentials_Always(landing) == TRUE

\* Steps 2-4: credential entry is performed only when neither the authenticated
\* selector nor a challenge surface was found.
EntersCredentials(landing) == landing = "loginForm"

\* Typing calls made when credential entry stopped at the step (or went through).
CredentialCalls(stop) ==
    CASE stop = "waitUsername" -> 0
      [] stop \in {"typeUsername", "waitPassword"} -> 1
      [] OTHER -> 2

\* The classified outcome of the single pass.
SessionResult(landing, stop) ==
    IF EntersCredentials(landing)
    THEN CASE stop = "success" -> "FreshLoginSucceeded"
           [] stop = "challenge" -> "ChallengeBlocked"
           [] OTHER -> "LoginFailed"
    ELSE CASE landing = "authenticated" -> "AlreadyAuthenticated"
           [] landing = "challenge" -> "ChallengeBlocked"
           [] OTHER -> "LoginFailed"

\* The page the single pass leaves.
SessionPage(landing, stop) ==
    LET entered == EntersCredentials(landing) IN
    [typeCalls |-> IF entered THEN CredentialCalls(stop) ELSE 0,
     challenge |-> IF landing = "challenge" THEN "beforeCredentials"
                   ELSE IF entered /\ stop = "challenge" THEN "afterSubmit"
                   ELSE "none",
     timedOut |-> entered /\ stop \in {"waitUsername", "waitPassword", "waitSubmit",
                                         "timeout"},
     toast |-> "none",
     authenticated |-> landing = "authenticated"]

\* The Session Establisher in place of loginToLinkedIn: steps 1-5, and on any
\* failure branch step 6 (one screenshot attempt, the notification with the
\* classified reason, the error propagated).
EstablishSession ==
    /\ pc = "login"
    /\ \E landing \in Landings, stop \in Range(CredentialSteps) \cup Races :
         LET result == SessionResult(landing, stop) IN
         /\ page' = SessionPage(landing, stop)
         /\ IF result \in {"AlreadyAuthenticated", "FreshLoginSucceeded"}
            THEN /\ pc' = "post"
                 /\ UNCHANGED <<error, mail, screenshots>>
            ELSE \E shot \in BOOLEAN :
                   /\ screenshots' = screenshots + 1
                   /\ sendNotification("LinkedIn Bot - Login Failed", result, 0, shot)
                   /\ error' = ThrownAfter(result, lastMail')
                   /\ pc' = "finally"
    /\ UNCHANGED <<config, script, historyFile, attempt, postedHistory, selection,
                   postContent, browser, closeCalls, confirmed, contentFailures, delays,
                   historyAtStart>>

(* -------------------------- createLinkedInPost ------------------------- *)

\* The wait for the success toast after the click on the Post button.
ToastOutcomes == {"seen", "timeout"}

\* Mutant: the click alone completes the publish (the earlier revision clicked
\* the Post button and returned).
PublishFulfilled_ClickOnly(clicked, toast) == clicked

\* await Promise.all([page.click(postButtonSelector), page.waitForSelector(toast)])
\* fulfils when both do.
PublishFulfilled(clicked, toast) == clicked /\ toast = "seen"

\* The page after createLinkedInPost: composed is FALSE when a step before the
\* Post button click failed; no toast is waited for to its end unless the click
\* went through.
PostOutcomes ==
    {[composed |-> FALSE, clicked |-> FALSE, toast |-> "none"],
     [composed |-> TRUE, clicked |-> FALSE, toast |-> "none"]}
    \cup {[composed |-> TRUE, clicked |-> TRUE, toast |-> t] : t \in ToastOutcomes}

\* Mutant: the message is recorded as used before the publish is confirmed.
CreatePost_RecordsFirst ==
    /\ pc = "post"
    /\ historyFile' = updateHistory(historyFile, TRUE, postContent, "ok")
    /\ \E o \in PostOutcomes :
         /\ page' = [page EXCEPT !.toast = o.toast]
         /\ IF o.composed /\ PublishFulfilled(o.clicked, o.toast)
            THEN /\ confirmed' = postContent
                 /\ pc' = "notifySuccess"
                 /\ UNCHANGED <<error, mail>>
            ELSE /\ sendNotification("LinkedIn Bot - Post Creation Failed", "PostError",
                                     0, FALSE)
                 /\ error' = ThrownAfter("PostError", lastMail')
                 /\ pc' = "finally"
                 /\ UNCHANGED confirmed
    /\ UNCHANGED <<config, script, attempt, postedHistory, selection, postContent, browser,
                   closeCalls, contentFailures, delays, historyAtStart, screenshots>>

\* await createLinkedInPost(page, postContent): returns only when the success
\* toast was seen; on any failure the notification and the rethrow.
CreatePost ==
    /\ pc = "post"
    /\ \E o \in PostOutcomes :
         /\ page' = [page EXCEPT !.toast = o.toast]
         /\ IF o.composed /\ PublishFulfilled(o.clicked, o.toast)
            THEN /\ confirmed' = postContent
                 /\ pc' = "notifySuccess"
                 /\ UNCHANGED <<error, mail>>
            ELSE /\ sendNotification("LinkedIn Bot - Post Creation Failed", "PostError",
                                     0, FALSE)
                 /\ error' = ThrownAfter("PostError", lastMail')
                 /\ pc' = "finally"
                 /\ UNCHANGED confirmed
    /\ UNCHANGED <<config, script, historyFile, attempt, postedHistory, selection, postContent,
                   browser, closeCalls, contentFailures, delays, historyAtStart, screenshots>>

\* await sendNotification('... Post Success', `Successfully posted: "${postContent}"`)
NotifySuccess ==
    /\ pc = "notifySuccess"
    /\ sendNotification("LinkedIn Bot - Post Success", postContent, 0, FALSE)
    /\ error' = ThrownAfter(error, lastMail')
    /\ pc' = IF error' = NoError THEN "updateHistory" ELSE "finally"
    /\ UNCHANGED <<config, script, page, historyFile, attempt, postedHistory, selection, postContent,
                   browser, closeCalls, confirmed, contentFailures, delays,
                   historyAtStart, screenshots>>

\* updateHistory(postContent)
UpdateHistory ==
    /\ pc = "updateHistory"
    /\ \E readOK \in BOOLEAN, written \in WriteOutcomes :
         historyFile' = updateHistory(historyFile, readOK, postContent, written)
    /\ pc' = "finally"
    /\ UNCHANGED <<config, script, page, attempt, postedHistory, selection, postContent, browser,
                   closeCalls, confirmed, error, mail, contentFailures, delays,
                   historyAtStart, screenshots>>

\* Where postToLinkedIn's completion lands in runWithRetries: the return after
\* a fulfilled await, the catch block after a rejected one.
Settled(e) == IF e = NoError THEN "return" ELSE "catch"

\* Mutant: the browser is closed on the success path only.
Finally_SkipsCloseOnError ==
    /\ pc = "finally"
    /\ IF browser = "open" /\ error = NoError
       THEN /\ browser' = "closed"
            /\ closeCalls' = closeCalls + 1
            /\ page' = BlankPage
            /\ \E ok \in BOOLEAN :
                 /\ error' = IF ok THEN error ELSE "CloseError"
                 /\ pc' = Settled(error')
       ELSE /\ pc' = Settled(error)
            /\ UNCHANGED <<browser, closeCalls, error, page>>
    /\ UNCHANGED <<config, script, historyFile, attempt, postedHistory, selection, postContent,
                   confirmed, mail, contentFailures, delays, historyAtStart, screenshots>>

\* finally { if (browser) await browser.close(); }  A rejected close replaces
\* the error (or the normal completion) of the try block.  The page goes with
\* the browser.
Finally ==
    /\ pc = "finally"
    /\ IF browser = "open"
       THEN /\ browser' = "closed"
            /\ closeCalls' = closeCalls + 1
            /\ page' = BlankPage
            /\ \E ok \in BOOLEAN :
                 /\ error' = IF ok THEN error ELSE "CloseError"
                 /\ pc' = Settled(error')
       ELSE /\ pc' = Settled(error)
            /\ UNCHANGED <<browser, closeCalls, error, page>>
    /\ UNCHANGED <<config, script, historyFile, attempt, postedHistory, selection, postContent,
                   confirmed, mail, contentFailures, delays, historyAtStart, screenshots>>

(* --------------------- runWithRetries, continued ----------------------- *)

\* Mutant: the return after a successful attempt is missing; the loop goes on.
ReturnSuccess_Continues ==
    /\ pc = "return"
    /\ IF attempt < MAX_RETRIES
       THEN /\ EnterAttempt(attempt + 1)
            /\ UNCHANGED <<config, script, historyFile, sent, contentFailures, delays>>
       ELSE /\ pc' = "done"
            /\ UNCHANGED <<config, script, historyFile, attempt, attemptVars, mail,
                           contentFailures, delays>>

\* return; // Success, so we exit the function.
ReturnSuccess ==
    /\ pc = "return"
    /\ pc' = "done"
    /\ UNCHANGED <<config, script, historyFile, attempt, attemptVars, mail, contentFailures,
                   delays>>

\* Mutant: the last failure is swallowed without the terminal notification.
CatchError_NoTerminal ==
    /\ pc = "catch"
    /\ IF attempt < MAX_RETRIES
       THEN /\ delays' = Append(delays, delayMs(attempt))
            /\ pc' = "delay"
       ELSE /\ pc' = "done"
            /\ UNCHANGED delays
    /\ UNCHANGED <<config, script, historyFile, attempt, attemptVars, mail, contentFailures>>

\* Mutant: a content-selection failure ends the run at once instead of retrying.
CatchError_NoContentRetry ==
    /\ pc = "catch"
    /\ IF attempt < MAX_RETRIES /\ ~Falsy(postContent)
       THEN /\ delays' = Append(delays, delayMs(attempt))
            /\ pc' = "delay"
            /\ UNCHANGED mail
       ELSE /\ sendNotification("LinkedIn Bot - All Retries Failed", error,
                                MAX_RETRIES, FALSE)
            /\ pc' = "done"
            /\ UNCHANGED delays
    /\ UNCHANGED <<config, script, historyFile, attempt, attemptVars, contentFailures>>

\* Mutant: delay(delayMs) is called without await; the loop goes straight on.
CatchError_DelayNotAwaited ==
    /\ pc = "catch"
    /\ IF attempt < MAX_RETRIES
       THEN /\ delays' = Append(delays, delayMs(attempt))
            /\ EnterAttempt(attempt + 1)
            /\ UNCHANGED <<sent>>
       ELSE /\ sendNotification("LinkedIn Bot - All Retries Failed", error,
                                    MAX_RETRIES, FALSE)
            /\ pc' = "done"
            /\ UNCHANGED <<delays, attempt, attemptVars>>
    /\ UNCHANGED <<config, script, historyFile, contentFailures>>

\* catch (error): the backoff wait, or the terminal notification.
CatchError ==
    /\ pc = "catch"
    /\ IF attempt < MAX_RETRIES
       THEN /\ delays' = Append(delays, delayMs(attempt))
            /\ pc' = "delay"
            /\ UNCHANGED mail
       ELSE /\ sendNotification("LinkedIn Bot - All Retries Failed", error,
                                    MAX_RETRIES, FALSE)
            /\ pc' = "done"
            /\ UNCHANGED delays
    /\ UNCHANGED <<config, script, historyFile, attempt, attemptVars, contentFailures>>

\* The delay elapses: attempt++ and the next call of postToLinkedIn.
DelayElapsed ==
    /\ pc = "delay"
    /\ EnterAttempt(attempt + 1)
    /\ UNCHANGED <<config, script, historyFile, sent, contentFailures, delays>>

Next ==
    \/ StartRun
    \/ SelectContent
    \/ ContentError
    \/ Launch
    \/ NewPage
    \/ Login
    \/ CreatePost
    \/ NotifySuccess
    \/ UpdateHistory
    \/ Finally
    \/ ReturnSuccess
    \/ CatchError
    \/ DelayElapsed

Spec == Init /\ [][Next]_vars

\* The same run with the notification settings present or absent.
SpecMail == InitMail /\ [][Next]_vars

\* The script started with or without --now; the cron job fires up to MaxRuns times.
NextRuns ==
    \/ Next
    \/ Schedule
    \/ CronTick

SpecRuns == InitRuns /\ [][NextRuns]_vars

\* The script started without --now; the cron job may fire again while the run
\* of its previous firing is still under way.
NextOverlap ==
    \/ Schedule
    \/ CronTick
    \/ CronTickOverlapping
    \/ Resume
    \/ SelectContent
    \/ ContentError
    \/ Launch
    \/ NewPage
    \/ Login
    \/ CreatePost
    \/ NotifySuccess
    \/ UpdateHistory
    \/ Finally
    \/ ReturnSuccess
    \/ CatchError
    \/ DelayElapsed

SpecOverlap == InitOverlap /\ [][NextOverlap]_vars

\* The --now run when every awaited call settles and every timer fires: a step
\* that can be taken is eventually taken.
SpecLive == InitLive /\ [][Next]_vars /\ WF_vars(Next)

\* The run with the Session Establisher of the specification as its login step.
NextSession ==
    \/ StartRun
    \/ SelectContent
    \/ ContentError
    \/ Launch
    \/ NewPage
    \/ EstablishSession
    \/ CreatePost
    \/ NotifySuccess
    \/ UpdateHistory
    \/ Finally
    \/ ReturnSuccess
    \/ CatchError
    \/ DelayElapsed

SpecSession == InitSession /\ [][NextSession]_vars

TypeOK ==
    /\ content \in Catalogs
    /\ POST_TOPIC \in TopicSettings
    /\ historyFile.kind \in {"absent", "invalid", "array"}
    /\ pc \in {"idle", "scheduled", "select", "contentError", "launch", "newPage", "login",
               "pending", "post",
               "notifySuccess", "updateHistory", "finally", "return", "catch",
               "delay", "done"}
    /\ attempt \in 0..MAX_RETRIES
    /\ browser \in {"none", "open", "closed"}
    /\ \A i \in 1..Len(notifications) : notifications[i].subject \in Subjects
    /\ page \in [typeCalls : 0..2, challenge : Challenges, timedOut : BOOLEAN,
                  toast : {"none"} \cup ToastOutcomes, authenticated : BOOLEAN]
    /\ notifyConfigured \in BOOLEAN
    /\ shouldPostNow \in BOOLEAN
    /\ scheduled \in BOOLEAN
    /\ runs \in 0..MaxRuns
    /\ lastMail \in {"none", "skipped", "sent", "failed"}
    /\ parked = NoRun \/ parked.pc \in {"delay", "updateHistory", "done"}

(* ======================= properties of the program ===================== *)

CE == "LinkedIn Bot - Content Error"
PS == "LinkedIn Bot - Post Success"
ARF == "LinkedIn Bot - All Retries Failed"

\* Every message text of the catalog, over all topics.
CatalogMsgs == UNION {Range(content[t]) : t \in DOMAIN content}
\* The posted messages a file holds.
Ledger(file) == IF file.kind = "array" THEN file.data ELSE <<>>
\* selectPostContent has run in the current attempt.
Selected == pc \notin {"idle", "select"}
\* postToLinkedIn has settled: fulfilled ("return") or rejected ("catch").
AttemptEnded == pc \in {"return", "catch"}
\* The run ended with the last attempt rejected / fulfilled.
RunFailed == pc = "done" /\ error # NoError
RunSucceeded == pc = "done" /\ error = NoError
SubjectsOf(log) == [i \in 1..Len(log) |-> log[i].subject]
Count(log, subject) == Cardinality({i \in 1..Len(log) : log[i].subject = subject})
Last(q) == q[Len(q)]

(* C1: whatever the catalog, the ledger file and POST_TOPIC, a value returned
   by selectPostContent is null or a catalog message that is absent from the
   ledger getPostedHistory returned to it. *)
C1_NeverSelectsPosted ==
    (Selected /\ selection.type = "return") =>
        \/ selection.value = NULL
        \/ /\ selection.value \in CatalogMsgs
           /\ selection.value \notin Range(postedHistory)

\* A message was selected from a topic another message of which is in the ledger.
C1_Witness ==
    /\ pc = "launch"
    /\ postContent \in CatalogMsgs
    /\ \E t \in DOMAIN content :
         /\ postContent \in Range(content[t])
         /\ Range(content[t]) \cap Range(postedHistory) # {}

(* C2 (as claimed): when the try block of an attempt is over, message m has
   been appended to the ledger if and only if createLinkedInPost confirmed m in
   that attempt, and after a login or publish failure the ledger file is as it
   was when the attempt started. *)
C2_AppendedIffConfirmed ==
    (pc = "finally" \/ AttemptEnded) =>
        /\ \A m \in Msgs :
             (historyFile = ArrayFile(Append(Ledger(historyAtStart), m))) <=> (confirmed = m)
        /\ error \in {"LoginError", "PostError"} => historyFile = historyAtStart

(* C3: within a run postToLinkedIn is entered at most MAX_RETRIES times, and
   once an invocation has returned normally it is never entered again. *)
C3_BoundedAndStopsOnSuccess ==
    [][/\ attempt' <= MAX_RETRIES
       /\ (pc = "return" \/ RunSucceeded) => attempt' = attempt]_vars

\* The run ended with a success on the second attempt: the third was never made.
C3_Witness == RunSucceeded /\ attempt = 2

(* C4: the delay waited before attempt k (2 <= k <= MAX_RETRIES) is
   1 minute * 5^(k-2); there is no delay before attempt 1 and none after the
   last failed attempt. *)
C4_BackoffDelays ==
    /\ \A k \in 2..MAX_RETRIES :
         Len(delays) >= k - 1 => delays[k - 1] = 60000 * 5^(k - 2)
    /\ Len(delays) = IF pc = "delay" THEN attempt
                     ELSE IF attempt = 0 THEN 0 ELSE attempt - 1
    /\ Len(delays) <= MAX_RETRIES - 1

\* The third attempt starts after the 1 minute and the 5 minute waits.
C4_Witness == pc = "select" /\ attempt = 3 /\ Len(delays) = 2

(* C5: a failure of postToLinkedIn always lands in the catch block; on a
   non-final attempt the wait follows and then the next attempt; on the final
   attempt exactly one 'All Retries Failed' notification is sent, carrying
   MAX_RETRIES and the last error, and the run completes; no such notification
   exists in a run that has not failed its last attempt. *)
C5_Landing ==
    /\ pc = "return" => error = NoError
    /\ pc = "catch" => error # NoError
    /\ sent[ARF] = IF RunFailed THEN 1 ELSE 0
    /\ Count(notifications, ARF) = sent[ARF]
    /\ RunFailed =>
         /\ attempt = MAX_RETRIES
         /\ Last(notifications) = Notification(ARF, error, MAX_RETRIES, FALSE)
C5_Steps ==
    /\ pc = "catch" => pc' = IF attempt < MAX_RETRIES THEN "delay" ELSE "done"
    /\ pc = "delay" => pc' = "select" /\ attempt' = attempt + 1
    /\ pc = "done" => pc' = "done"
C5_FailuresCaught == []C5_Landing /\ [][C5_Steps]_vars

\* The run ended after a login failure on the final attempt.
C5_Witness == RunFailed /\ error = "LoginError" /\ sent[ARF] = 1

(* C6 (as claimed): when every message of a non-empty catalog is in the ledger
   that selectPostContent read, it returns null without an exception, the
   attempt sends 'Content Error', fails, and launches no browser. *)
C6_ExhaustedReturnsNull ==
    (Selected /\ CatalogMsgs # {} /\ CatalogMsgs \subseteq Range(postedHistory)) =>
        /\ selection = Return(NULL)
        /\ browser = "none"
        /\ pc # "return"
        /\ pc # "contentError" => Count(notifications, CE) = 1

(* C7 (as claimed): a run that started with every message of a non-empty
   catalog in the ledger,
   and whose attempts all found it so, has sent exactly one 'Content Error'
   notification when it ends.  (No 'Post Success' in the run: the ledger file is
   the one the run started with.) *)
C7_ExactlyOnePerRun ==
    (/\ pc = "done"
     /\ sent[PS] = 0
     /\ CatalogMsgs # {}
     /\ CatalogMsgs \subseteq Range(Ledger(historyFile))
     /\ contentFailures = attempt) => sent[CE] = 1

(* C7 (amended): one 'Content Error' notification is sent for each attempt
   whose selectPostContent returned nothing, and such an attempt is retried like
   any other failure: a run whose every attempt failed that way made all
   MAX_RETRIES attempts and sent MAX_RETRIES 'Content Error' notifications. *)
C7_OnePerFailedSelection ==
    /\ sent[CE] = IF pc = "contentError" THEN contentFailures - 1 ELSE contentFailures
    /\ contentFailures <= attempt
    /\ (pc = "done" /\ contentFailures = attempt) =>
         /\ attempt = MAX_RETRIES
         /\ sent[CE] = MAX_RETRIES

\* A run over an exhausted ledger ended with three 'Content Error' notifications.
C7_Witness ==
    /\ pc = "done"
    /\ CatalogMsgs # {}
    /\ CatalogMsgs \subseteq Range(Ledger(historyFile))
    /\ sent[CE] = 3

(* C8 (as claimed): when POST_TOPIC names a topic that is not in the catalog,
   selectPostContent returns null, whatever the other topics still hold. *)
C8_UnknownTopicReturnsNull ==
    (Selected /\ POST_TOPIC # "" /\ POST_TOPIC \notin DOMAIN content) =>
        selection = Return(NULL)

(* C9: in an attempt that launched a browser, browser.close is called exactly
   once before the attempt ends, whichever step failed; in an attempt that did
   not launch one it is never called. *)
C9_ClosedExactlyOnce ==
    /\ closeCalls = IF browser = "closed" THEN 1 ELSE 0
    /\ (AttemptEnded \/ pc \in {"delay", "done"}) => browser # "open"

\* A browser was launched, the login failed, and the browser was closed once.
C9_Witness ==
    pc = "catch" /\ error = "LoginError" /\ browser = "closed" /\ closeCalls = 1

(* C10: in an attempt the 'Post Success' notification is sent only after the
   publish of the selected message was confirmed, and the ledger file is written
   only after that notification; while no publish is confirmed the ledger file
   is as it was when the attempt started. *)
C10_RecordAfterConfirm ==
    /\ Count(notifications, PS) > 0 =>
         /\ confirmed = postContent
         /\ confirmed # NULL
         /\ notifications[1] = Notification(PS, confirmed, 0, FALSE)
         /\ Count(notifications, PS) = 1
    /\ pc = "notifySuccess" =>
         confirmed = postContent /\ confirmed # NULL /\ notifications = <<>>
    /\ historyFile # historyAtStart => Count(notifications, PS) = 1
    /\ confirmed = NULL => historyFile = historyAtStart

\* The ledger gained the message after its confirmation and its notification.
C10_Witness ==
    /\ pc = "finally"
    /\ confirmed \in Msgs
    /\ SubjectsOf(notifications) = <<PS>>
    /\ historyFile = ArrayFile(Append(Ledger(historyAtStart), confirmed))

LF == "LinkedIn Bot - Login Failed"
PF == "LinkedIn Bot - Post Creation Failed"

\* loginToLinkedIn has just thrown: the try block of the attempt stopped with
\* the browser open, before any publish, on an error that neither newPage nor
\* createLinkedInPost throws.
LoginFailedNow ==
    /\ pc = "finally"
    /\ browser = "open"
    /\ confirmed = NULL
    /\ error \notin {"PageError", "PostError"}
\* createLinkedInPost has just thrown.
PostFailedNow == pc = "finally" /\ error = "PostError"

(* C11: createLinkedInPost returns normally only when the success toast was
   seen within its timeout after the click on the Post button; when the wait
   for the toast times out the function throws and nothing is confirmed. *)
C11_ConfirmedOnlyAfterToast ==
    /\ pc \in {"notifySuccess", "updateHistory"} =>
         page.toast = "seen" /\ confirmed = postContent
    /\ (confirmed # NULL /\ browser = "open") => page.toast = "seen"
    /\ page.toast = "timeout" => PostFailedNow /\ confirmed = NULL

\* createLinkedInPost returned after the toast was seen.
C11_Witness ==
    pc = "notifySuccess" /\ page.toast = "seen" /\ confirmed \in Msgs

(* C12: in an attempt whose landing surface showed the authenticated view (a
   persisted session was valid), the Session Establisher succeeds and no
   username or password typing call is made; nor is a login failure reported. *)
C12_AuthenticatedSkipsCredentials ==
    page.authenticated =>
        /\ page.typeCalls = 0
        /\ screenshots = 0
        /\ Count(notifications, LF) = 0
        /\ pc \in {"post", "notifySuccess", "updateHistory", "finally"}
        /\ pc = "finally" => error \in {NoError, "PostError"}

\* The establisher finished as AlreadyAuthenticated: on to the publish, nothing typed.
C12_Witness ==
    pc = "post" /\ page.authenticated /\ page.typeCalls = 0 /\ error = NoError

(* C13 (as claimed): when a security challenge is up on the page before any
   credential is typed, the login fails without a single page.type call on the
   credential fields and with exactly one screenshot attempt. *)
C13_ChallengeBeforeCredentials ==
    (pc = "finally" /\ page.challenge = "beforeCredentials") =>
        /\ page.typeCalls = 0
        /\ screenshots = 1

(* C14: sendNotification never throws into its caller.  Without the settings
   nothing is sent; with them the mail is sent or the failure is swallowed; in
   every case the step that called it goes on as its own code dictates: the
   attempt fails with the error of the failing phase, the success path goes on
   to record the message, the exhausted retry loop ends. *)
C14_Landing ==
    /\ error # "MailError"
    /\ lastMail \in (IF notifications = <<>> THEN {"none"}
                     ELSE MailOutcomes(notifyConfigured))
C14_Steps ==
    Len(notifications') = Len(notifications) + 1 =>
        LET subject == Last(notifications').subject IN
        /\ subject \in {CE, LF, PF} => pc' = "finally"
        /\ subject = CE => error' = "Failed to select content. Halting execution."
        /\ subject = LF => error' = "LoginError"
        /\ subject = PF => error' = "PostError"
        /\ subject = PS => pc' = "updateHistory" /\ error' = NoError
        /\ subject = ARF => pc' = "done" /\ error' = error
C14_NotifierNeverThrows == []C14_Landing /\ [][C14_Steps]_vars

\* The 'Post Success' mail failed to send and the attempt went on to the ledger.
C14_Witness ==
    /\ pc = "updateHistory"
    /\ notifyConfigured
    /\ lastMail = "failed"
    /\ error = NoError

(* C15 (as claimed): with --now postToLinkedIn is entered exactly once. *)
C15_PostingLogicOnce == shouldPostNow => attempt <= 1

(* C15 (amended): with --now runWithRetries is called exactly once and no cron
   job is registered; within that one call postToLinkedIn is entered at least
   once and at most MAX_RETRIES times, and when the call is over nothing more
   runs. *)
C15_OneRunWithRetries ==
    shouldPostNow =>
        /\ ~scheduled
        /\ runs = IF pc = "idle" THEN 0 ELSE 1
        /\ pc # "idle" => attempt \in 1..MAX_RETRIES
        /\ pc = "done" => ~ENABLED NextRuns

\* A --now invocation ended after three calls of postToLinkedIn.
C15_Witness ==
    shouldPostNow /\ pc = "done" /\ runs = 1 /\ attempt = MAX_RETRIES

(* C16 (as claimed): every message that was in the ledger file when an attempt
   started is still in it, whatever selectPostContent and updateHistory met
   when they read and wrote the file. *)
C16_LedgerOnlyGrows ==
    Range(Ledger(historyAtStart)) \subseteq Range(Ledger(historyFile))

(* C17 (as claimed): a message that is in the ledger file, where an earlier
   confirmed publish put it, is never published again by a later attempt or
   run. *)
C17_NeverPublishedAgain ==
    pc = "notifySuccess" => confirmed \notin Range(Ledger(historyFile))

(* C18: whenever loginToLinkedIn fails, page.screenshot was called once,
   exactly one 'Login Failed' notification was sent, whether the screenshot
   was saved or not, it carries the login error, and the error thrown to
   postToLinkedIn is that login error. *)
C18_LoginFailureHandling ==
    /\ LoginFailedNow =>
         /\ screenshots = 1
         /\ SubjectsOf(notifications) = <<LF>>
         /\ notifications[1].text = "LoginError"
         /\ error = "LoginError"
    /\ Count(notifications, LF) <= 1
    /\ screenshots = Count(notifications, LF)

\* The login timed out waiting for the feed and the screenshot could not be saved.
C18_Witness ==
    /\ LoginFailedNow
    /\ page.timedOut
    /\ notifications = <<Notification(LF, "LoginError", 0, FALSE)>>

(* C19 (as claimed): whenever createLinkedInPost fails, a screenshot capture
   was attempted, one 'Post Creation Failed' notification was sent, and the
   error thrown to postToLinkedIn is the publish error. *)
C19_PostFailureHandling ==
    PostFailedNow =>
        /\ screenshots = 1
        /\ SubjectsOf(notifications) = <<PF>>
        /\ notifications[1].text = error

(* C20 (as claimed): when a security challenge comes up after the credentials
   were submitted, before the feed, the login failure is not reported as a
   timeout. *)
C20_ChallengeNotTimeout ==
    (pc = "finally" /\ page.challenge = "afterSubmit") => ~page.timedOut

\* selectPostContent did not deliver a message: it returned nothing or threw.
SelectionFailed == selection.type = "throw" \/ Falsy(selection.value)

(* C21 (as claimed): when the try block of an attempt is over and its browser
   not yet closed, the attempt has sent 'Content Error' if its content selection failed, 'Login Failed' if
   its login failed, 'Post Creation Failed' if its publish failed, and in each
   case nothing else; none of the three is sent by an attempt in which that
   phase did not fail; a run whose retries are exhausted has sent 'All Retries
   Failed' once; the four subjects are pairwise distinct. *)
C21_OwnNotificationPerPhase ==
    /\ Cardinality({CE, LF, PF, ARF}) = 4
    /\ pc = "finally" =>
         /\ SelectionFailed <=> SubjectsOf(notifications) = <<CE>>
         /\ error = "LoginError" <=> SubjectsOf(notifications) = <<LF>>
         /\ error = "PostError" <=> SubjectsOf(notifications) = <<PF>>
    /\ RunFailed <=> sent[ARF] = 1

\* runWithRetries was called and has not returned.
Running == pc \notin {"idle", "scheduled", "done"}

(* C22: every call of runWithRetries returns, when every awaited call settles
   and every delay elapses: a run under way always reaches its end, and it ends
   only by the return after a successful attempt or after the failure of
   attempt MAX_RETRIES. *)
C22_Ends ==
    (pc # "done" /\ pc' = "done") =>
        \/ pc = "return"
        \/ pc = "catch" /\ attempt = MAX_RETRIES
C22_RunTerminates == <>(pc = "done") /\ (Running ~> pc = "done") /\ [][C22_Ends]_vars

\* The run ended after the login failed in each of its three attempts and both
\* delays were waited.
C22_Witness ==
    /\ pc = "done"
    /\ attempt = MAX_RETRIES
    /\ contentFailures = 0
    /\ sent[LF] = MAX_RETRIES
    /\ Len(delays) = MAX_RETRIES - 1

(* C23: within one call of runWithRetries the attempts follow one another: a
   browser is launched only by an attempt that has none, the browser of an
   attempt is no longer open when postToLinkedIn has settled, and attempt k+1
   is entered only from the elapsed delay that followed the failure of attempt
   k, the browser of attempt k closed and delay(delayMs(k)) waited. *)
C23_OneBrowser ==
    /\ pc \in {"select", "contentError", "launch"} => browser = "none"
    /\ pc \in {"return", "catch", "delay", "done"} => browser # "open"
C23_Steps ==
    /\ (browser # "open" /\ browser' = "open") => pc = "launch" /\ browser = "none"
    /\ pc' = "delay" => pc = "catch" /\ attempt' = attempt
    /\ (pc # "idle" /\ attempt' # attempt) =>
          /\ pc = "delay"
          /\ attempt' = attempt + 1
          /\ browser # "open"
          /\ Len(delays) = attempt
          /\ Last(delays) = delayMs(attempt)
C23_StrictlySequential == []C23_OneBrowser /\ [][C23_Steps]_vars

\* The second attempt has launched its browser; the first failed at login, its
\* browser was closed and the one-minute delay waited.
C23_Witness ==
    /\ pc = "newPage"
    /\ attempt = 2
    /\ browser = "open"
    /\ sent[LF] = 1
    /\ delays = <<delayMs(1)>>

\* Publishes confirmed in this run: each is followed by its 'Post Success' call.
ConfirmedInRun == sent[PS] + (IF pc = "notifySuccess" THEN 1 ELSE 0)

(* C24 (as claimed): in one call of runWithRetries at most one publish is
   confirmed and at most one message is appended to the ledger (here: the first
   run, on a ledger that started empty or missing), whichever steps of the
   attempts fail, a rejected browser.close after a confirmed publish included. *)
C24_AtMostOnePublishPerRun ==
    /\ ConfirmedInRun <= 1
    /\ runs <= 1 => Len(Ledger(historyFile)) <= 1

(* C25 (as claimed): while two runs of runWithRetries overlap, no step of
   either makes a message disappear from the ledger file, and the updateHistory
   call of either run leaves the message it was given in the file: the ledger
   ends with every message either run confirmed. *)
C25_Steps ==
    parked # NoRun =>
        /\ Range(Ledger(historyFile)) \subseteq Range(Ledger(historyFile'))
        /\ (pc = "updateHistory" /\ pc' = "finally") =>
              confirmed \in Range(Ledger(historyFile'))
C25_NoLostUpdate == [][C25_Steps]_vars

====
